---- MODULE Spec2Model ----
(***************************************************************************)
(* gpx2routecard: conversion of a GPX route into a route-card spreadsheet. *)
(* A model of src/gpx2routecard/main.py: the geodesy helpers, the          *)
(* extraction of the named waypoints and their legs, the elevation lookup  *)
(* and the run of main() up to the written workbook.                      *)
(*                                                                         *)
(* Numbers.  Python floats are modelled in fixed point:                    *)
(*   coordinates   whole (even) degrees                                    *)
(*   sines, cosines and their products   1/Scale, haversine's a 1/Scale^2  *)
(*   angles returned by atan2   microradians                               *)
(*   bearings before rounding   hundredths of a degree                     *)
(*   distances   metres (1/1000 km); round(total, 2) is tens of metres     *)
(*   elevations   quarters of a metre                                      *)
(***************************************************************************)
EXTENDS Integers, Sequences, FiniteSets, TLC

Scale == 100 * 100

(* ------------------------------------------------------------------ *)
(* math: sin, cos, sqrt, atan2, degrees, and the built-in round        *)
(* ------------------------------------------------------------------ *)

\* Scale * sin(d degrees), d = 0..90, rounded to the nearest unit
SinTab ==
  << 0, 175, 349, 523, 698, 872, 1045, 1219, 1392, 1564, 1736, 1908, 2079,
     2250, 2419, 2588, 2756, 2924, 3090, 3256, 3420, 3584, 3746, 3907, 4067, 4226,
     4384, 4540, 4695, 4848, 5000, 5150, 5299, 5446, 5592, 5736, 5878, 6018, 6157,
     6293, 6428, 6561, 6691, 6820, 6947, 7071, 7193, 7314, 7431, 7547, 7660, 7771,
     7880, 7986, 8090, 8192, 8290, 8387, 8480, 8572, 8660, 8746, 8829, 8910, 8988,
     9063, 9135, 9205, 9272, 9336, 9397, 9455, 9511, 9563, 9613, 9659, 9703, 9744,
     9781, 9816, 9848, 9877, 9903, 9925, 9945, 9962, 9976, 9986, 9994, 9998, 10000 >>

\* math.sin(math.radians(d)) for a whole number of degrees d
sin(d) ==
  LET m == d % 360
  IN  IF m <= 90 THEN SinTab[m + 1]
      ELSE IF m <= 180 THEN SinTab[180 - m + 1]
      ELSE IF m <= 270 THEN -SinTab[m - 180 + 1]
      ELSE -SinTab[360 - m + 1]

\* math.cos(math.radians(d))
cos(d) == sin(d + 90)

RECURSIVE SqrtSearch(_, _, _)
SqrtSearch(n, lo, hi) ==
  IF lo = hi THEN lo
  ELSE LET mid == (lo + hi + 1) \div 2
       IN  IF mid * mid <= n THEN SqrtSearch(n, mid, hi)
           ELSE SqrtSearch(n, lo, mid - 1)

\* math.sqrt of n/Scale^2, in 1/Scale
sqrt(n) == SqrtSearch(n, 0, Scale)

\* atan(2^-i) in microradians, i = 0..20
AtanTab ==
  << 785398, 463648, 244979, 124355, 62419, 31240, 15624, 7812, 3906, 1953,
     977, 488, 244, 122, 61, 31, 15, 8, 4, 2, 1 >>

Pi == 4 * AtanTab[1]

RECURSIVE Pow2(_)
Pow2(i) == IF i = 0 THEN 1 ELSE 2 * Pow2(i - 1)

\* The angle of (x, y), x >= 0, by successive rotations towards the x axis
RECURSIVE Vectoring(_, _, _, _)
Vectoring(x, y, z, i) ==
  IF y = 0 \/ i >= Len(AtanTab) THEN z
  ELSE IF y > 0
       THEN Vectoring(x + y \div Pow2(i), y - x \div Pow2(i), z + AtanTab[i + 1], i + 1)
       ELSE Vectoring(x - y \div Pow2(i), y + x \div Pow2(i), z - AtanTab[i + 1], i + 1)

\* math.atan2(y, x) in microradians, -Pi..Pi; y and x in 1/Scale
atan2(y, x) ==
  LET up == Pow2(16)
  IN  IF x = 0 /\ y = 0 THEN 0
      ELSE IF x >= 0 THEN Vectoring(x * up, y * up, 0, 0)
      ELSE IF y >= 0 THEN Pi - Vectoring((-x) * up, y * up, 0, 0)
      ELSE -Pi + Vectoring((-x) * up, (-y) * up, 0, 0)

\* math.degrees(r), r in microradians, in hundredths of a degree
degrees(r) == ((r \div 100) * 57296) \div 100000

\* round(n / unit): to the nearest whole number, a tie to the even one
round(n, unit) ==
  LET q == n \div unit
      r == n % unit
  IN  IF 2 * r > unit \/ (2 * r = unit /\ q % 2 = 1) THEN q + 1 ELSE q

(* ------------------------------------------------------------------ *)
(* Geodesy                                                             *)
(* ------------------------------------------------------------------ *)

\* mean Earth radius, km
R == 6371

\* great-circle distance in metres between two coordinates in degrees
haversine(lat1, lon1, lat2, lon2) ==
  LET sdphi == sin((lat2 - lat1) \div 2)
      sdlam == sin((lon2 - lon1) \div 2)
      a == sdphi * sdphi
           + ((cos(lat1) * cos(lat2)) \div Scale) * ((sdlam * sdlam) \div Scale)
      c == 2 * atan2(sqrt(a), sqrt(Scale * Scale - a))
  IN  (R * (c \div 10)) \div 100

\* initial compass bearing in whole degrees
calculate_bearing(lat1, lon1, lat2, lon2) ==
  LET y == (sin(lon2 - lon1) * cos(lat2)) \div Scale
      x == (cos(lat1) * sin(lat2)) \div Scale
           - (((sin(lat1) * cos(lat2)) \div Scale) * cos(lon2 - lon1)) \div Scale
      bearing == degrees(atan2(y, x))
      normalised == (bearing + 36000) % 36000
  IN  round(normalised, 100)

(* ------------------------------------------------------------------ *)
(* Inputs: the command line, the GPX file, the elevation service       *)
(* ------------------------------------------------------------------ *)

\* most points in a route or in a track segment
MaxPts == 3

\* most <wpt> elements in a GPX file
MaxWpts == 2

\* most results the elevation service returns beyond the locations sent
MaxExtra == 1

\* (latitude, longitude) in degrees
Coords == {<<0, 2>>, <<88, 0>>, <<50, 0>>}

SeqsUpTo(S, n) == UNION {[1..k -> S] : k \in 0..n}

\* a <wpt>: a named one anywhere, or one without a name
GpxWaypoints ==
  {[name |-> "Hut", description |-> "shelter", latitude |-> c[1], longitude |-> c[2]] : c \in Coords}
  \cup {[name |-> "", description |-> "", latitude |-> 50, longitude |-> 0]}

\* the geometry of a GPX file: route is gpx.routes[0].points and track is
\* gpx.tracks[0].segments[0].points, each <<>> when there is none. Files with
\* a route alone, with a track alone, and with a track beside a route
GpxGeometries ==
  {[route |-> r, track |-> << >>] : r \in SeqsUpTo(Coords, MaxPts)}
  \cup {[route |-> r, track |-> <<<<50, 0>>, <<0, 2>>>>] : r \in SeqsUpTo(Coords, 1)}

\* what gpxpy.parse returns
GpxFiles ==
  {[route |-> g.route, track |-> g.track, waypoints |-> w] :
     g \in GpxGeometries, w \in SeqsUpTo(GpxWaypoints, MaxWpts)}

NoGpx == [route |-> << >>, track |-> << >>, waypoints |-> << >>]

\* sys.argv[1:], each argument a path split by os.path.splitext
ArgLists ==
  LET paths == {[base |-> "walk", ext |-> e] : e \in {".gpx", ".GPX", ".kml", ""}}
  IN  SeqsUpTo(paths, 1) \cup {<<p, p>> : p \in paths}

\* str.lower on the extensions
lower(ext) == IF ext = ".GPX" THEN ".gpx" ELSE ext

\* the elevation the service knows at a coordinate, in quarters of a metre
Terrain(lat, lon) ==
  IF <<lat, lon>> = <<0, 2>> THEN 40
  ELSE IF <<lat, lon>> = <<88, 0>> THEN 46
  ELSE IF <<lat, lon>> = <<50, 0>> THEN 161
  ELSE 0

\* haversine and calculate_bearing over the coordinates of the inputs, computed once
HaversineOf == [p \in Coords, q \in Coords |-> haversine(p[1], p[2], q[1], q[2])]

BearingOf == [p \in Coords, q \in Coords |-> calculate_bearing(p[1], p[2], q[1], q[2])]

\* a cell that is '' in the source; a cell with a value v is <<v>>
Blank == << >>

(* ------------------------------------------------------------------ *)
(* extract_named_waypoints, step by step                               *)
(* ------------------------------------------------------------------ *)

\* OSGridConverter.latlong2grid: one coordinate in, one reference out
latlong2grid(lat, lon) == <<"grid", lat, lon>>

\* the polyline: the first route's points, else the first track segment's
SelectRoutePoints(g) ==
  IF g.route # << >> THEN g.route
  ELSE IF g.track # << >> THEN g.track
  ELSE << >>

RECURSIVE NamedOf(_)
NamedOf(wpts) ==
  IF wpts = << >> THEN << >>
  ELSE LET wpt == Head(wpts)
       IN  IF wpt.name # ""
           THEN <<[name |-> wpt.name, desc |-> wpt.description, lat |-> wpt.latitude,
                   lon |-> wpt.longitude, grid_ref |-> latlong2grid(wpt.latitude, wpt.longitude)]>>
                \o NamedOf(Tail(wpts))
           ELSE NamedOf(Tail(wpts))

\* (mutant) the named points with the last one left under its own name
BuildNamedPoints_NoRename(rp, wpts) ==
  LET start == IF rp # << >>
               THEN <<[name |-> "START", desc |-> "", lat |-> rp[1][1], lon |-> rp[1][2],
                       grid_ref |-> latlong2grid(rp[1][1], rp[1][2])]>>
               ELSE << >>
  IN  start \o NamedOf(wpts)

\* START, the named waypoints, and the last of them renamed END
BuildNamedPoints(rp, wpts) ==
  LET start == IF rp # << >>
               THEN <<[name |-> "START", desc |-> "", lat |-> rp[1][1], lon |-> rp[1][2],
                       grid_ref |-> latlong2grid(rp[1][1], rp[1][2])]>>
               ELSE << >>
      all == start \o NamedOf(wpts)
  IN  IF all # << >>
      THEN [all EXCEPT ![Len(all)] = [@ EXCEPT !.name = "END"]]
      ELSE all

\* (mutant) the last index of the least distance
nearest_idx_last(rp, lat, lon) ==
  LET d == [i \in 0..(Len(rp) - 1) |-> HaversineOf[<<lat, lon>>, rp[i + 1]]]
  IN  CHOOSE i \in 0..(Len(rp) - 1) :
        \A j \in 0..(Len(rp) - 1) : d[i] < d[j] \/ (d[i] = d[j] /\ i >= j)

\* min(range(len(route_points)), key=...): the first index of the least distance
\* (0-based, as in the source); route_points must not be empty
nearest_idx(rp, lat, lon) ==
  LET d == [i \in 0..(Len(rp) - 1) |-> HaversineOf[<<lat, lon>>, rp[i + 1]]]
  IN  CHOOSE i \in 0..(Len(rp) - 1) :
        \A j \in 0..(Len(rp) - 1) : d[i] < d[j] \/ (d[i] = d[j] /\ i <= j)

\* indices = [nearest_idx(lat, lon) for ... in named_points]
MatchAll(rp, np) == [i \in 1..Len(np) |-> nearest_idx(rp, np[i].lat, np[i].lon)]

\* the length of the polyline from point a to point b (0-based), counted from
\* its far end; 0 when b <= a
RECURSIVE SegmentSum(_, _, _)
SegmentSum(rp, a, b) ==
  IF b <= a THEN 0
  ELSE SegmentSum(rp, a, b - 1) + HaversineOf[rp[b], rp[b + 1]]

\* (mutant) the loop started one segment late
LegTotal_SkipFirst(rp, a, b) == SegmentSum(rp, a + 1, b)

\* (mutant) a leg walked backwards is measured like one walked forwards
LegTotal_BothWays(rp, a, b) == IF a <= b THEN SegmentSum(rp, a, b) ELSE SegmentSum(rp, b, a)

\* the inner loop: for j in range(a, b): total += haversine(route_points[j], route_points[j+1])
RECURSIVE LegTotal(_, _, _)
LegTotal(rp, a, b) ==
  IF a >= b THEN 0
  ELSE HaversineOf[rp[a + 1], rp[a + 2]] + LegTotal(rp, a + 1, b)

\* the polyline indices the inner loop reads for one leg
LegReads(a, b) == UNION {{j, j + 1} : j \in a..(b - 1)}

\* distances.append(round(total, 2)): hundredths of a kilometre
LegDistance(rp, a, b) == round(LegTotal(rp, a, b), 10)

\* f"{bearing:03d}" as its digits (the degree sign follows)
Format03d(n) == <<n \div 100, (n \div 10) % 10, n % 10>>

\* distances: one per consecutive pair of matched indices
Distances(rp, idx) == [i \in 1..(Len(idx) - 1) |-> LegDistance(rp, idx[i], idx[i + 1])]

\* bearings: '' first, one per consecutive pair of named points, '' last
Bearings(np) ==
  <<Blank>>
  \o [i \in 1..(Len(np) - 1) |->
        <<Format03d(BearingOf[<<np[i].lat, np[i].lon>>, <<np[i + 1].lat, np[i + 1].lon>>])>>]
  \o <<Blank>>

\* (mutant) the size of each change of elevation, without its sign
Ascents_Unsigned(n, elev) ==
  <<Blank>>
  \o [i \in 1..(n - 1) |->
        LET diff == elev[i + 1][3] - elev[i][3]
        IN  <<round(IF diff < 0 THEN -diff ELSE diff, 4)>>]
  \o <<Blank>>

\* ascents: '' first, round(elevations[i+1] - elevations[i]) per pair, '' last
Ascents(n, elev) ==
  <<Blank>>
  \o [i \in 1..(n - 1) |-> <<round(elev[i + 1][3] - elev[i][3], 4)>>]
  \o <<Blank>>

\* elevations[i+1] raises IndexError in the loop over the pairs
AscentsRaise(n, elev) == \E i \in 1..(n - 1) : i + 1 > Len(elev)

\* the rows returned, one per named point
Rows(np, dist, bear, asc) ==
  [i \in 1..Len(np) |->
     [grid_reference |-> np[i].grid_ref,
      name |-> np[i].name,
      distance_from_last_km |-> IF i > 1 THEN <<dist[i - 1]>> ELSE Blank,
      bearing |-> bear[i],
      description |-> np[i].desc,
      ascent |-> asc[i]]]

(* ------------------------------------------------------------------ *)
(* The workbook                                                        *)
(* ------------------------------------------------------------------ *)

\* (mutant) ten minutes of rest in every row
RestFormula_AllTen(row) == "=10"

\* the formula of the Rest (min) column in worksheet row `row` (data rows start at 2)
RestFormula(row) == IF row = 2 THEN "=\"\"" ELSE "=10"

\* the formula of the Arrival Time column
ArrivalFormula(row) ==
  IF row = 2 THEN [f |-> "=TIME(8,0,0)", prev |-> 0]
  ELSE [f |-> "=IF(F<>\"\",H+TIME(0,F+G,0),\"\")", prev |-> row - 1]

\* the worksheet after the three formula columns are inserted
Sheet(rows) ==
  [data |-> rows,
   time |-> [i \in 1..Len(rows) |-> [f |-> "=IF(AND(C<>\"\",E<>\"\"),C*20+E/10,\"\")", row |-> i + 1]],
   rest |-> [i \in 1..Len(rows) |-> RestFormula(i + 1)],
   arrival |-> [i \in 1..Len(rows) |-> ArrivalFormula(i + 1)]]

NoSheet == [data |-> << >>, time |-> << >>, rest |-> << >>, arrival |-> << >>]

(* ------------------------------------------------------------------ *)
(* State                                                               *)
(* ------------------------------------------------------------------ *)

VARIABLES
  pc,            \* where the run is
  argv,          \* sys.argv[1:]
  gpx,           \* the parsed GPX
  route_points,  \* the polyline
  named_points,  \* START, the named waypoints, END
  elevations,    \* what get_elevations_post returned
  lookups,       \* how many times the elevation service was called
  indices,       \* nearest polyline index of each named point (0-based)
  matched,       \* nearest-point matching was started
  ascents,       \* the ascents list
  waypoints,     \* the rows extract_named_waypoints returns
  outfile,       \* the .xlsx: "absent", "open" (created, being written), "saved"
  sheet,         \* the worksheet written
  error,         \* why the run failed, "" while it has not
  exit_status    \* the process's exit status, -1 while it runs

vars == <<pc, argv, gpx, route_points, named_points, elevations, lookups, indices,
          matched, ascents, waypoints, outfile, sheet, error, exit_status>>

extraction == <<gpx, route_points, named_points, elevations, lookups, indices,
                matched, ascents, waypoints>>

Init ==
  /\ pc = "main"
  /\ argv = << >>
  /\ gpx = NoGpx
  /\ route_points = << >>
  /\ named_points = << >>
  /\ elevations = << >>
  /\ lookups = 0
  /\ indices = << >>
  /\ matched = FALSE
  /\ ascents = << >>
  /\ waypoints = << >>
  /\ outfile = "absent"
  /\ sheet = NoSheet
  /\ error = ""
  /\ exit_status = -1

\* sys.exit(1) after a message
Fail(why) ==
  /\ pc' = "exit"
  /\ error' = why
  /\ exit_status' = 1

(* ------------------------------------------------------------------ *)
(* main()                                                              *)
(* ------------------------------------------------------------------ *)

\* the argument count and the extension
CheckArgs ==
  /\ pc = "main"
  /\ \E args \in ArgLists :
       /\ argv' = args
       /\ IF Len(args) # 1 THEN Fail("usage")
          ELSE IF lower(args[1].ext) # ".gpx" THEN Fail("extension")
          ELSE pc' = "parse" /\ UNCHANGED <<error, exit_status>>
  /\ UNCHANGED <<extraction, outfile, sheet>>

\* open(gpx_file) and gpxpy.parse
Parse ==
  /\ pc = "parse"
  /\ \/ Fail("cannot_open") /\ UNCHANGED gpx
     \/ Fail("invalid_gpx") /\ UNCHANGED gpx
     \/ \E g \in GpxFiles :
          /\ gpx' = g
          /\ pc' = "points"
          /\ UNCHANGED <<error, exit_status>>
  /\ UNCHANGED <<argv, route_points, named_points, elevations, lookups, indices,
                 matched, ascents, waypoints, outfile, sheet>>

\* the polyline and the named points
CollectPoints ==
  /\ pc = "points"
  /\ route_points' = SelectRoutePoints(gpx)
  /\ named_points' = BuildNamedPoints(SelectRoutePoints(gpx), gpx.waypoints)
  /\ pc' = "elevations"
  /\ UNCHANGED <<argv, gpx, elevations, lookups, indices, matched, ascents, waypoints,
                 outfile, sheet, error, exit_status>>

\* get_elevations_post: one POST for all named points; the service answers with
\* an error, or with a result list of its own length
GetElevations ==
  /\ pc = "elevations"
  /\ lookups' = lookups + 1
  /\ \/ Fail("elevation_lookup") /\ UNCHANGED elevations
     \/ \E k \in 0..(Len(named_points) + MaxExtra) :
          /\ elevations' =
               [i \in 1..k |->
                  IF i <= Len(named_points)
                  THEN <<named_points[i].lat, named_points[i].lon,
                         Terrain(named_points[i].lat, named_points[i].lon)>>
                  ELSE <<0, 0, 0>>]
          /\ pc' = "match"
          /\ UNCHANGED <<error, exit_status>>
  /\ UNCHANGED <<argv, gpx, route_points, named_points, indices, matched, ascents,
                 waypoints, outfile, sheet>>

\* nearest-point matching of every named point; min() of an empty range raises
Match ==
  /\ pc = "match"
  /\ matched' = TRUE
  /\ IF named_points # << >> /\ route_points = << >>
     THEN Fail("min_of_empty") /\ UNCHANGED indices
     ELSE /\ indices' = MatchAll(route_points, named_points)
          /\ pc' = "legs"
          /\ UNCHANGED <<error, exit_status>>
  /\ UNCHANGED <<argv, gpx, route_points, named_points, elevations, lookups, ascents,
                 waypoints, outfile, sheet>>

\* the legs and the rows
Legs ==
  /\ pc = "legs"
  /\ IF AscentsRaise(Len(indices), elevations)
     THEN Fail("index_error") /\ UNCHANGED <<ascents, waypoints>>
     ELSE /\ ascents' = Ascents(Len(indices), elevations)
          /\ waypoints' = Rows(named_points, Distances(route_points, indices),
                               Bearings(named_points), Ascents(Len(indices), elevations))
          /\ pc' = "check"
          /\ UNCHANGED <<error, exit_status>>
  /\ UNCHANGED <<argv, gpx, route_points, named_points, elevations, lookups, indices,
                 matched, outfile, sheet>>

\* if not waypoints: exit 1
CheckWaypoints ==
  /\ pc = "check"
  /\ IF waypoints = << >> THEN Fail("no_waypoints")
     ELSE pc' = "open" /\ UNCHANGED <<error, exit_status>>
  /\ UNCHANGED <<argv, extraction, outfile, sheet>>

\* (mutant) the workbook is created before the GPX is read
OpenWriter_BeforeExtraction ==
  /\ \/ pc = "open"
     \/ pc = "parse" /\ outfile = "absent"
  /\ outfile' = "open"
  /\ pc' = IF pc = "open" THEN "write" ELSE pc
  /\ UNCHANGED <<argv, extraction, sheet, error, exit_status>>

\* pd.ExcelWriter(outp): the file is created, or cannot be
OpenWriter ==
  /\ pc = "open"
  /\ \/ Fail("cannot_create") /\ UNCHANGED outfile
     \/ outfile' = "open" /\ pc' = "write" /\ UNCHANGED <<error, exit_status>>
  /\ UNCHANGED <<argv, extraction, sheet>>

\* the body of the with block and the save on leaving it
WriteSheet ==
  /\ pc = "write"
  /\ \/ Fail("write_failed") /\ UNCHANGED <<outfile, sheet>>
     \/ /\ sheet' = Sheet(waypoints)
        /\ outfile' = "saved"
        /\ pc' = "report"
        /\ UNCHANGED <<error, exit_status>>
  /\ UNCHANGED <<argv, extraction>>

\* the two lines printed; main returns
Report ==
  /\ pc = "report"
  /\ pc' = "exit"
  /\ exit_status' = 0
  /\ UNCHANGED <<argv, extraction, outfile, sheet, error>>

Next ==
  \/ CheckArgs
  \/ Parse
  \/ CollectPoints
  \/ GetElevations
  \/ Match
  \/ Legs
  \/ CheckWaypoints
  \/ OpenWriter
  \/ WriteSheet
  \/ Report

Spec == Init /\ [][Next]_vars

(* ------------------------------------------------------------------ *)
(* The legs of one route under every list of fetched elevations        *)
(* ------------------------------------------------------------------ *)

\* elevations the service may report, in quarters of a metre
ElevVals == {-8, 0, 4, 6, 9}

\* GPX files of one three-point route and any waypoints
AscentInputs ==
  {g \in GpxFiles : g.route = <<<<0, 2>>, <<50, 0>>, <<88, 0>>>> /\ g.track = << >>}

\* the run as it stands before the legs are computed, the elevation list
\* holding one entry per named point
InitAscents ==
  \E g \in AscentInputs :
    LET rp == SelectRoutePoints(g)
        np == BuildNamedPoints(rp, g.waypoints)
    IN  \E e \in [1..Len(np) -> ElevVals] :
          /\ pc = "legs"
          /\ argv = <<[base |-> "walk", ext |-> ".gpx"]>>
          /\ gpx = g
          /\ route_points = rp
          /\ named_points = np
          /\ elevations = [i \in 1..Len(np) |-> <<np[i].lat, np[i].lon, e[i]>>]
          /\ lookups = 1
          /\ indices = MatchAll(rp, np)
          /\ matched = TRUE
          /\ ascents = << >>
          /\ waypoints = << >>
          /\ outfile = "absent"
          /\ sheet = NoSheet
          /\ error = ""
          /\ exit_status = -1

NextAscents == Legs

SpecAscents == InitAscents /\ [][NextAscents]_vars

(* ------------------------------------------------------------------ *)
(* Properties                                                          *)
(* ------------------------------------------------------------------ *)

\* main returned normally: the workbook is written and the status is 0
Succeeded == pc = "exit" /\ exit_status = 0

\* the coordinate of named point k
At(k) == <<named_points[k].lat, named_points[k].lon>>

\* the fields of a row that are blank in the first row
FirstRowBlank(row) ==
  /\ row.distance_from_last_km = Blank
  /\ row.bearing = Blank
  /\ row.ascent = Blank

\* C1 as stated: after every successful conversion the first row is named
\* START with blank distance, bearing and ascent, and the last row is named
\* END, also when they are the same row.
C1_StartFirstEndLast ==
  Succeeded =>
    /\ waypoints[1].name = "START"
    /\ FirstRowBlank(waypoints[1])
    /\ waypoints[Len(waypoints)].name = "END"

\* C1 amended: after every successful conversion the first row has blank
\* distance, bearing and ascent and the last row is named END; the first row
\* is named START when there are two rows or more, and END when it is the
\* only row.
C1_EndLastStartBefore ==
  Succeeded =>
    /\ FirstRowBlank(waypoints[1])
    /\ waypoints[Len(waypoints)].name = "END"
    /\ waypoints[1].name = (IF Len(waypoints) = 1 THEN "END" ELSE "START")

\* C1 witness: a successful conversion of a GPX with named waypoints: three rows, START first, the last waypoint renamed END
C1_Witness ==
  /\ Succeeded
  /\ Len(waypoints) = 3
  /\ gpx.waypoints[Len(gpx.waypoints)].name = "Hut"
  /\ waypoints[1].name = "START"
  /\ waypoints[3].name = "END"

\* the failures the run meets before the workbook is opened
EarlyErrors ==
  {"usage", "extension", "cannot_open", "invalid_gpx", "min_of_empty", "no_waypoints",
   "elevation_lookup"}

\* C2: the output file exists only once parsing, the named points, the
\* elevation lookup and the legs are done; a run that fails with a usage
\* error, a wrong extension, a GPX that cannot be read or parsed, an empty
\* route or a failed elevation lookup exits with status 1 and leaves no file.
C2_OutputAfterExtraction ==
  /\ outfile # "absent" =>
        /\ pc \in {"write", "report", "exit"}
        /\ gpx # NoGpx
        /\ lookups = 1
        /\ matched
        /\ waypoints # << >>
        /\ Len(waypoints) = Len(named_points)
        /\ error \notin EarlyErrors
  /\ error \in EarlyErrors => exit_status = 1 /\ outfile = "absent"

\* C2 witness: a run that failed at the elevation lookup, after the named points were built, and left no file
C2_Witness ==
  /\ pc = "exit"
  /\ error = "elevation_lookup"
  /\ Len(named_points) >= 2
  /\ outfile = "absent"

\* C3 as stated: with no point in the first route and none in the first
\* track segment, the run stops at the selection of the polyline: the
\* elevation service is not called and no matching is attempted.
C3_EmptyRouteStopsFirst ==
  (pc \notin {"main", "parse", "points"} /\ route_points = << >>) =>
    lookups = 0 /\ ~matched

\* the elevation service answered (it did not raise)
LookupReturned == lookups = 1 /\ error # "elevation_lookup"

\* C4 as stated: when the service returns a list whose length is not the
\* number of named points sent, no row is emitted and the run does not end
\* with status 0.
C4_CountMismatchFails ==
  (LookupReturned /\ Len(elevations) # Len(named_points)) =>
    waypoints = << >> /\ exit_status # 0

\* every named point has its matched index
MatchedAll == matched /\ error # "min_of_empty"

\* C5 as stated: a named waypoint whose coordinates are those of polyline
\* point p is matched to index p, whichever p it is.
C5_ExactIndex ==
  MatchedAll =>
    \A k \in 2..Len(named_points) : \A p \in 0..(Len(route_points) - 1) :
      route_points[p + 1] = At(k) => indices[k] = p

\* C5 amended: a named waypoint whose coordinates are those of polyline point
\* p is matched to the lowest index whose point has those coordinates: to p
\* when no earlier point has them, and to an earlier index when the polyline
\* revisits them (0 for the last point of a closed loop).
C5_LowestExactIndex ==
  MatchedAll =>
    \A k \in 2..Len(named_points) : \A p \in 0..(Len(route_points) - 1) :
      route_points[p + 1] = At(k) =>
        /\ indices[k] <= p
        /\ route_points[indices[k] + 1] = At(k)
        /\ \A q \in 0..(indices[k] - 1) : route_points[q + 1] # At(k)

\* C5 witness: a closed loop of three points with a waypoint at its last point, matched to 0, and one at its middle point, matched to 1
C5_Witness ==
  /\ MatchedAll
  /\ Len(route_points) = 3
  /\ route_points[1] = route_points[3]
  /\ route_points[2] # route_points[1]
  /\ \E k \in 2..Len(named_points) : At(k) = route_points[3] /\ indices[k] = 0
  /\ \E k \in 2..Len(named_points) : At(k) = route_points[2] /\ indices[k] = 1

\* a three-point route and exactly one named waypoint, at the middle point
C6_Case ==
  /\ Len(gpx.route) = 3
  /\ Len(NamedOf(gpx.waypoints)) = 1
  /\ <<NamedOf(gpx.waypoints)[1].lat, NamedOf(gpx.waypoints)[1].lon>> = gpx.route[2]

\* C6 as stated: in that case two rows are emitted, START and END, and the
\* distance on the END row is the length of both polyline segments together
\* (to two decimals of a kilometre).
C6_BothSegments ==
  (Succeeded /\ C6_Case) =>
    /\ Len(waypoints) = 2
    /\ waypoints[1].name = "START"
    /\ waypoints[2].name = "END"
    /\ waypoints[2].distance_from_last_km =
         <<round(HaversineOf[gpx.route[1], gpx.route[2]]
                 + HaversineOf[gpx.route[2], gpx.route[3]], 10)>>

\* C6 amended: in that case two rows are emitted, START and END, and the
\* distance on the END row is the length of the first polyline segment alone,
\* from point 0 to the middle point (to two decimals of a kilometre).
C6_FirstSegment ==
  (Succeeded /\ C6_Case) =>
    /\ Len(waypoints) = 2
    /\ waypoints[1].name = "START"
    /\ waypoints[2].name = "END"
    /\ waypoints[2].distance_from_last_km =
         <<round(HaversineOf[gpx.route[1], gpx.route[2]], 10)>>

\* C6 witness: a successful conversion of a route of three different points with its one named waypoint at the middle point
C6_Witness ==
  /\ Succeeded
  /\ C6_Case
  /\ Cardinality({gpx.route[1], gpx.route[2], gpx.route[3]}) = 3
  /\ Len(waypoints) = 2

\* the sum of the ascents of rows i..Len(rows)
RECURSIVE SumAscents(_, _)
SumAscents(rows, i) ==
  IF i > Len(rows) THEN 0 ELSE rows[i].ascent[1] + SumAscents(rows, i + 1)

\* what the ascents of the rows add up to, less elevation[last] - elevation[0],
\* in quarters of a metre
AscentGap ==
  4 * SumAscents(waypoints, 2) - (elevations[Len(elevations)][3] - elevations[1][3])

\* C7 as stated: for every list of elevations aligned with the named points
\* the first row's ascent is blank and the ascents of the other rows add up
\* to elevation[last] - elevation[0].
C7_AscentsTelescope ==
  pc = "check" =>
    /\ waypoints[1].ascent = Blank
    /\ AscentGap = 0

\* C7 amended: the first row's ascent is blank, and for every list of integral
\* elevations aligned with the named points the ascents of the other rows add
\* up to elevation[last] - elevation[0].
C7_AscentsTelescopeIntegral ==
  pc = "check" =>
    /\ waypoints[1].ascent = Blank
    /\ (\A i \in 1..Len(elevations) : elevations[i][3] % 4 = 0) => AscentGap = 0

\* C7 witness: three rows over integral elevations that go down and then up
C7_Witness ==
  /\ pc = "check"
  /\ Len(waypoints) = 3
  /\ \A i \in 1..3 : elevations[i][3] % 4 = 0
  /\ elevations[2][3] < elevations[1][3]
  /\ elevations[3][3] > elevations[1][3]
  /\ waypoints[2].ascent[1] < 0
  /\ 4 * (waypoints[2].ascent[1] + waypoints[3].ascent[1]) = elevations[3][3] - elevations[1][3]

\* C8 as stated: every bearing on a row is three digits between 000 and 359.
C8_BearingBelow360 ==
  \A i \in 1..Len(waypoints) :
    waypoints[i].bearing # Blank =>
      LET digits == waypoints[i].bearing[1]
      IN  /\ Len(digits) = 3
          /\ 100 * digits[1] + 10 * digits[2] + digits[3] \in 0..359

\* C9 as stated: in the written sheet the Rest cell of the first data row
\* holds 0 and that of every other data row holds 10.
C9_RestZeroThenTen ==
  outfile = "saved" =>
    /\ Len(sheet.rest) = Len(waypoints)
    /\ sheet.rest[1] \in {"=0", "0"}
    /\ \A i \in 2..Len(sheet.rest) : sheet.rest[i] = "=10"

\* C9 amended: in the written sheet the Rest cell of the first data row holds
\* the formula ="" (an empty text, not 0) and that of every other data row
\* holds 10.
C9_RestEmptyThenTen ==
  outfile = "saved" =>
    /\ Len(sheet.rest) = Len(waypoints)
    /\ sheet.rest[1] = "=\"\""
    /\ \A i \in 2..Len(sheet.rest) : sheet.rest[i] = "=10"

\* C9 witness: a saved sheet of three data rows
C9_Witness ==
  /\ outfile = "saved"
  /\ Len(sheet.rest) = 3
  /\ sheet.rest[3] = "=10"

\* C10: the distance on a row is the length of the polyline between the
\* matched index a of the row before and its own matched index b when a < b
\* (to two decimals of a kilometre), and 0 when b <= a; it is never negative,
\* and the loop reads no polyline index outside 0..N-1.
C10_LegDistances ==
  waypoints # << >> =>
    \A i \in 2..Len(waypoints) :
      LET a == indices[i - 1]
          b == indices[i]
          d == waypoints[i].distance_from_last_km[1]
      IN  /\ d >= 0
          /\ a < b => d = round(SegmentSum(route_points, a, b), 10)
          /\ b <= a => d = 0
          /\ LegReads(a, b) \subseteq 0..(Len(route_points) - 1)

\* C10 witness: a successful conversion whose second leg runs forward over two segments and whose third leg runs backwards
C10_Witness ==
  /\ Succeeded
  /\ Len(waypoints) = 3
  /\ indices = <<0, 2, 1>>
  /\ waypoints[2].distance_from_last_km[1] > 0
  /\ waypoints[3].distance_from_last_km = <<0>>
====
